---- MODULE Spec2Model ----
(***************************************************************************)
(* Model of the Webcam capture-session facade (src/src/webcam.ts).         *)
(*                                                                         *)
(* The facade is single-threaded and event-loop driven.  A synchronous     *)
(* method (setFacingMode, getVideoInputs, selectCamera, flip, stop, snap)  *)
(* and the synchronous prefix of an asynchronous one (start, info, stream) *)
(* run to completion as one step.  The platform settles a pending request      *)
(* (getUserMedia, enumerateDevices) in a later task; the promise reactions *)
(* that follow run in the same microtask checkpoint, up to the next        *)
(* platform request, so a delivery and its continuation are one step.      *)
(***************************************************************************)
EXTENDS Integers, Sequences, FiniteSets, Bags, TLC

VARIABLES
    facingMode,        \* this._facingMode
    webcamList,        \* this._webcamList
    streamList,        \* this._streamList (handles, in acquisition order)
    selectedDeviceId,  \* this._selectedDeviceId
    srcObject,         \* this._webcamElement.srcObject
    transform,         \* this._webcamElement.style.transform
    playing,           \* this._webcamElement.play() has been invoked
    tracks,            \* the tracks of every handle the platform granted
    calls,             \* the asynchronous calls in flight (a bag)
    canvasElement,     \* this._canvasElement is bound
    snapSoundElement,  \* this._snapSoundElement is bound
    event              \* what the latest step sent to the platform and to
                       \* the caller of an asynchronous method

vars == <<facingMode, webcamList, streamList, selectedDeviceId, srcObject,
          transform, playing, tracks, calls, canvasElement, snapSoundElement,
          event>>

session == <<facingMode, webcamList, streamList, selectedDeviceId>>
display == <<srcObject, transform, playing>>
elements == <<canvasElement, snapSoundElement>>

----------------------------------------------------------------------------
(* Bounds of the model.                                                    *)

MaxCalls == 1      \* asynchronous calls (start, info, stream) in flight
MaxDevices == 2    \* length of a raw device list
MaxTracks == 2     \* most tracks a stream handle carries
MaxHandles == 3    \* stream handles the platform grants in one run

----------------------------------------------------------------------------
(* Strings are sequences of one-character strings, so that toLowerCase and *)
(* includes are computed rather than assumed.                              *)

UpperChars == <<"A","B","C","D","E","F","G","H","I","J","K","L","M",
                "N","O","P","Q","R","S","T","U","V","W","X","Y","Z">>
LowerChars == <<"a","b","c","d","e","f","g","h","i","j","k","l","m",
                "n","o","p","q","r","s","t","u","v","w","x","y","z">>

toLowerCaseChar(ch) ==
    IF \E i \in 1..Len(UpperChars) : UpperChars[i] = ch
    THEN LowerChars[CHOOSE i \in 1..Len(UpperChars) : UpperChars[i] = ch]
    ELSE ch

toLowerCase(s) == [i \in 1..Len(s) |-> toLowerCaseChar(s[i])]

includes(s, pat) ==
    \E i \in 0..(Len(s) - Len(pat)) : SubSeq(s, i + 1, i + Len(pat)) = pat

FRONT == <<"f","r","o","n","t">>
BACK == <<"b","a","c","k">>

----------------------------------------------------------------------------
(* The platform's values.                                                  *)

FacingModes == {"user", "environment"}

\* srcObject before any stream is bound (handles are numbered from 1).
None == 0

\* MediaDeviceInfo records the platform may report.
DevBack == [kind |-> "videoinput", deviceId |-> "cam-back",
            label |-> <<"B","a","c","k"," ","C","a","m">>]
DevBoth == [kind |-> "videoinput", deviceId |-> "cam-dual",
            label |-> <<"B","A","C","K","/","F","R","O","N","T">>]
DevMic == [kind |-> "audioinput", deviceId |-> "mic",
           label |-> <<"F","r","o","n","t"," ","M","i","c">>]

DevicePool == {DevBack, DevBoth, DevMic}

\* Raw device lists: sequences of distinct devices of the pool.
RawLists ==
    UNION {{l \in [1..n -> DevicePool] :
              \A i, j \in 1..n : l[i] = l[j] => i = j} : n \in 0..MaxDevices}

\* Failure values the platform may reject a request with.
Errors == {"NotAllowedError", "NotFoundError"}

Range(seq) == {seq[i] : i \in 1..Len(seq)}

----------------------------------------------------------------------------
(* Pure parts of the methods, computed the way the code computes them.     *)

\* getVideoInputs, lines 90-96: start from [] and push every videoinput.
RECURSIVE pushVideoInputs(_, _)
pushVideoInputs(mediaDevices, list) ==
    IF mediaDevices = <<>> THEN list
    ELSE pushVideoInputs(Tail(mediaDevices),
                         IF Head(mediaDevices).kind = "videoinput"
                         THEN Append(list, Head(mediaDevices))
                         ELSE list)

\* A variant that also forces "user" when no camera is left.
facingModeAfterInputsAtMostOne(list, fm) == IF Len(list) <= 1 THEN "user" ELSE fm

\* getVideoInputs, lines 98-100: a single camera forces "user".
facingModeAfterInputs(list, fm) == IF Len(list) = 1 THEN "user" ELSE fm

\* A variant that keeps the facing mode next to the device id.
getMediaConstraintsBothKeys(deviceId, fm) ==
    [video |-> IF deviceId = ""
               THEN [facingMode |-> fm]
               ELSE [facingMode |-> fm, deviceId |-> [exact |-> deviceId]],
     audio |-> FALSE]

\* getMediaConstraints.
getMediaConstraints(deviceId, fm) ==
    [video |-> IF deviceId = ""
               THEN [facingMode |-> fm]
               ELSE [deviceId |-> [exact |-> deviceId]],
     audio |-> FALSE]

\* The condition of selectCamera's if statement, lines 132-136.
labelMatches(webcam, fm) ==
    LET label == toLowerCase(webcam.label)
    IN  \/ (fm = "user" /\ includes(label, FRONT))
        \/ (fm = "environment" /\ includes(label, BACK))

\* A variant of the loop without the break: the last match wins.
RECURSIVE selectCameraLoopNoBreak(_, _, _)
selectCameraLoopNoBreak(list, fm, deviceId) ==
    IF list = <<>> THEN deviceId
    ELSE selectCameraLoopNoBreak(Tail(list), fm,
             IF labelMatches(Head(list), fm) THEN Head(list).deviceId
             ELSE deviceId)

\* A variant that clears the selection when no label matches.
RECURSIVE selectCameraLoopResets(_, _, _)
selectCameraLoopResets(list, fm, deviceId) ==
    IF list = <<>> THEN ""
    ELSE IF labelMatches(Head(list), fm) THEN Head(list).deviceId
    ELSE selectCameraLoopResets(Tail(list), fm, deviceId)

\* selectCamera's loop: the first match assigns and breaks.
RECURSIVE selectCameraLoop(_, _, _)
selectCameraLoop(list, fm, deviceId) ==
    IF list = <<>> THEN deviceId
    ELSE IF labelMatches(Head(list), fm) THEN Head(list).deviceId
    ELSE selectCameraLoop(Tail(list), fm, deviceId)

\* A variant that always switches to the rear camera.
flipModeToEnvironment(fm) == "environment"

\* flip, line 149.
flipMode(fm) == IF fm = "user" THEN "environment" ELSE "user"

\* A variant that stops only the first track of every stream.
stopTracksFirstOnly(trk, list) ==
    [h \in DOMAIN trk |->
        IF h \in Range(list)
        THEN [t \in DOMAIN trk[h] |-> IF t = 1 THEN "ended" ELSE trk[h][t]]
        ELSE trk[h]]

\* stop: every track of every stream of the list is stopped.
stopTracks(trk, list) ==
    [h \in DOMAIN trk |->
        IF h \in Range(list)
        THEN [t \in DOMAIN trk[h] |-> "ended"]
        ELSE trk[h]]

\* stream, lines 216-218: the mirror transform is set for "user" only.
streamTransform(fm, old) == IF fm = "user" THEN "scale(-1,1)" ELSE old

\* The streams the platform grants differ in their number of tracks: the
\* h-th stream granted carries between 1 and MaxTracks tracks, all live.
numTracks(h) == 1 + (h % MaxTracks)
newTracks(h) == [t \in 1..numTracks(h) |-> "live"]

----------------------------------------------------------------------------
(* Asynchronous calls and what a step emits.                                *)

\* A call in flight: the method, start's flag, the request it waits for
\* ("acquire" and "stream" are getUserMedia requests, "enumerate" is an
\* enumerateDevices request) and the handle start's acquire stage was
\* granted (0 before that).  Calls in flight that agree on all of these
\* behave alike, so calls is a bag of such records.
Call(op, startStream, pc, granted) ==
    [op |-> op, startStream |-> startStream, pc |-> pc, granted |-> granted]

InFlight == BagToSet(calls)

\* A method may be called while fewer than MaxCalls calls are in flight.
CanCall == BagCardinality(calls) < MaxCalls

Issue(call) == calls (+) SetToBag({call})
Settle(call) == calls (-) SetToBag({call})
Advance(call, next) == (calls (-) SetToBag({call})) (+) SetToBag({next})

\* No delivery, and no settlement.
NoEvent == [kind |-> "none"]

\* What a synchronous method leaves in event: its name.
Ran(op) == [op |-> op]

\* A getUserMedia / enumerateDevices request handed to the platform.
getUserMedia(constraints) == [api |-> "getUserMedia", constraints |-> constraints]
enumerateDevices == [api |-> "enumerateDevices"]

\* What the platform delivers to a pending request.
Stream(h) == [kind |-> "stream", v |-> h]
Devices(mediaDevices) == [kind |-> "devices", v |-> mediaDevices]
Failure(error) == [kind |-> "error", v |-> error]

\* What an asynchronous step leaves in event: the method and the stage that
\* ran, the call's startStream flag and the handle its acquire stage was
\* granted (0 if none), what the platform delivered, the requests the step
\* issued and the settlement of the call's promise (NoEvent if none).
Emit(op, stage, call, delivered, requests, settled) ==
    [op |-> op, stage |-> stage, startStream |-> call.startStream,
     granted |-> call.granted, delivered |-> delivered,
     requests |-> requests, settled |-> settled]

\* A variant that rejects with an error of the facade's own.
rejectWrapped(error) == [kind |-> "rejected", v |-> "WebcamError"]

\* resolve(value) / reject(error) of the promise the method returned.
resolve(value) == [kind |-> "resolved", v |-> value]
reject(error) == [kind |-> "rejected", v |-> error]

\* The constructor, lines 26-34; canvas and sound tell whether the optional
\* canvasElement and snapSoundElement arguments were passed.
Constructed(canvas, sound) ==
    /\ facingMode \in FacingModes
    /\ webcamList = <<>>
    /\ streamList = <<>>
    /\ selectedDeviceId = ""
    /\ srcObject = None
    /\ transform = ""
    /\ playing = FALSE
    /\ tracks = <<>>
    /\ calls = EmptyBag
    /\ canvasElement = canvas
    /\ snapSoundElement = sound
    /\ event = Ran("constructor")

\* A session constructed with all four arguments.
Init == Constructed(TRUE, TRUE)

\* A session constructed with any of the optional arguments left out.
InitAny == \E canvas, sound \in BOOLEAN : Constructed(canvas, sound)

----------------------------------------------------------------------------
(* Synchronous methods.                                                     *)

getFacingMode == facingMode

\* A variant that also re-runs the camera selection for the new mode.
setFacingModeReselects(fm) ==
    /\ facingMode' = fm
    /\ selectedDeviceId' = selectCameraLoop(webcamList, fm, selectedDeviceId)
    /\ event' = Ran("setFacingMode")
    /\ UNCHANGED <<elements, webcamList, streamList, display, tracks, calls>>

setFacingMode(fm) ==
    /\ facingMode' = fm
    /\ event' = Ran("setFacingMode")
    /\ UNCHANGED <<elements, webcamList, streamList, selectedDeviceId, display,
                   tracks, calls>>

getVideoInputs(mediaDevices) ==
    /\ webcamList' = pushVideoInputs(mediaDevices, <<>>)
    /\ facingMode' = facingModeAfterInputs(webcamList', facingMode)
    /\ event' = Ran("getVideoInputs")
    /\ UNCHANGED <<elements, streamList, selectedDeviceId, display, tracks,
                   calls>>

selectCamera ==
    /\ selectedDeviceId' =
           selectCameraLoop(webcamList, facingMode, selectedDeviceId)
    /\ event' = Ran("selectCamera")
    /\ UNCHANGED <<elements, facingMode, webcamList, streamList, display, tracks,
                   calls>>

flip ==
    /\ facingMode' = flipMode(facingMode)
    /\ transform' = ""
    /\ selectedDeviceId' =
           selectCameraLoop(webcamList, facingMode', selectedDeviceId)
    /\ event' = Ran("flip")
    /\ UNCHANGED <<elements, webcamList, streamList, srcObject, playing, tracks,
                   calls>>

\* A variant that empties the stream list once the tracks are stopped.
stopClearsList ==
    /\ tracks' = stopTracks(tracks, streamList)
    /\ streamList' = <<>>
    /\ event' = Ran("stop")
    /\ UNCHANGED <<elements, facingMode, webcamList, selectedDeviceId, display,
                   calls>>

\* A variant that also abandons the calls in flight.
stopCancels ==
    /\ tracks' = stopTracks(tracks, streamList)
    /\ calls' = EmptyBag
    /\ event' = Ran("stop")
    /\ UNCHANGED <<elements, session, display>>

stop ==
    /\ tracks' = stopTracks(tracks, streamList)
    /\ event' = Ran("stop")
    /\ UNCHANGED <<elements, session, display, calls>>

\* What snap leaves in event: the error it threw ("" if none), the calls it
\* made on the sound element, the drawing surface and its context, in
\* order, and whether it returned a data URL.
Snapped(thrown, effects) ==
    [op |-> "snap", thrown |-> thrown, effects |-> effects,
     returned |-> IF thrown = "" THEN "toDataURL(image/png)" ELSE ""]

\* snap, lines 256-269: the calls made once the surface and context exist.
snapEffects(sound, fm) ==
    (IF sound THEN <<"play">> ELSE <<>>)
    \o <<"height", "width">>
    \o (IF fm = "user" THEN <<"translate", "scale(-1,1)">> ELSE <<>>)
    \o <<"clearRect", "drawImage">>

\* A variant of snap that plays the sound before it looks for the surface.
snapSoundFirst(context) ==
    /\ event' = IF ~(canvasElement /\ context)
                THEN Snapped("Canvas element is missing.",
                             IF snapSoundElement THEN <<"play">> ELSE <<>>)
                ELSE Snapped("", snapEffects(snapSoundElement, facingMode))
    /\ UNCHANGED <<elements, session, display, tracks, calls>>

\* snap; context tells whether getContext('2d') yields a context.
snap(context) ==
    /\ event' = IF ~(canvasElement /\ context)
                THEN Snapped("Canvas element is missing.", <<>>)
                ELSE Snapped("", snapEffects(snapSoundElement, facingMode))
    /\ UNCHANGED <<elements, session, display, tracks, calls>>

----------------------------------------------------------------------------
(* Asynchronous methods: the synchronous part, up to the first request.    *)

\* A variant of start that does not stop the streams acquired before.
startKeepsOldStreams(startStream) ==
    /\ CanCall
    /\ LET call == Call("start", startStream, "acquire", 0) IN
        /\ calls' = Issue(call)
        /\ event' = Emit("start", "call", call, NoEvent,
               <<getUserMedia(getMediaConstraints(selectedDeviceId,
                                                  facingMode))>>,
               NoEvent)
    /\ UNCHANGED <<elements, session, display, tracks>>

\* start, lines 166-168: stop(), then getUserMedia(getMediaConstraints()).
start(startStream) ==
    /\ CanCall
    /\ tracks' = stopTracks(tracks, streamList)
    /\ LET call == Call("start", startStream, "acquire", 0) IN
        /\ calls' = Issue(call)
        /\ event' = Emit("start", "call", call, NoEvent,
               <<getUserMedia(getMediaConstraints(selectedDeviceId,
                                                  facingMode))>>,
               NoEvent)
    /\ UNCHANGED <<elements, session, display>>

\* info, lines 194-195: enumerateDevices().
info ==
    /\ CanCall
    /\ LET call == Call("info", FALSE, "enumerate", 0) IN
        /\ calls' = Issue(call)
        /\ event' = Emit("info", "call", call, NoEvent, <<enumerateDevices>>,
                         NoEvent)
    /\ UNCHANGED <<elements, session, display, tracks>>

\* stream, lines 210-211: getUserMedia(getMediaConstraints()).
stream ==
    /\ CanCall
    /\ LET call == Call("stream", FALSE, "stream", 0) IN
        /\ calls' = Issue(call)
        /\ event' = Emit("stream", "call", call, NoEvent,
               <<getUserMedia(getMediaConstraints(selectedDeviceId,
                                                  facingMode))>>,
               NoEvent)
    /\ UNCHANGED <<elements, session, display, tracks>>

----------------------------------------------------------------------------
(* The platform settles a pending request; the reactions run.              *)

\* A variant that does not keep the stream of the acquire stage.
startThenStreamDropsHandle(call) ==
    /\ call.op = "start" /\ call.pc = "acquire"
    /\ Len(tracks) < MaxHandles
    /\ LET h == Len(tracks) + 1
           next == [call EXCEPT !.pc = "enumerate", !.granted = h]
       IN
        /\ tracks' = Append(tracks, newTracks(h))
        /\ calls' = Advance(call, next)
        /\ event' = Emit("start", "acquire", next, Stream(h),
                         <<enumerateDevices>>, NoEvent)
    /\ UNCHANGED <<elements, session, display>>

\* A variant that goes straight to stream(), without info() and selectCamera.
startThenStreamSkipsInfo(call) ==
    /\ call.op = "start" /\ call.pc = "acquire"
    /\ Len(tracks) < MaxHandles
    /\ LET h == Len(tracks) + 1
           next == [call EXCEPT !.pc = "stream", !.granted = h]
       IN
        /\ tracks' = Append(tracks, newTracks(h))
        /\ streamList' = Append(streamList, h)
        /\ calls' = Advance(call, next)
        /\ event' = Emit("start", "acquire", next, Stream(h),
               <<getUserMedia(getMediaConstraints(selectedDeviceId,
                                                  facingMode))>>,
               NoEvent)
    /\ UNCHANGED <<elements, facingMode, webcamList, selectedDeviceId, display>>

\* start, lines 169-171: the first getUserMedia is fulfilled with a stream;
\* it is pushed and info() issues enumerateDevices().
startThenStream(call) ==
    /\ call.op = "start" /\ call.pc = "acquire"
    /\ Len(tracks) < MaxHandles
    /\ LET h == Len(tracks) + 1
           next == [call EXCEPT !.pc = "enumerate", !.granted = h]
       IN
        /\ tracks' = Append(tracks, newTracks(h))
        /\ streamList' = Append(streamList, h)
        /\ calls' = Advance(call, next)
        /\ event' = Emit("start", "acquire", next, Stream(h),
                         <<enumerateDevices>>, NoEvent)
    /\ UNCHANGED <<elements, facingMode, webcamList, selectedDeviceId, display>>

\* A variant of start that ignores its flag and always goes on to stream().
infoThenDevicesAlwaysStreams(call, mediaDevices) ==
    /\ call.pc = "enumerate"
    /\ webcamList' = pushVideoInputs(mediaDevices, <<>>)
    /\ facingMode' = facingModeAfterInputs(webcamList', facingMode)
    /\ IF call.op = "info"
       THEN /\ UNCHANGED selectedDeviceId
            /\ calls' = Settle(call)
            /\ event' = Emit("info", "enumerate", call, Devices(mediaDevices),
                             <<>>, resolve(webcamList'))
       ELSE /\ selectedDeviceId' =
                   selectCameraLoop(webcamList', facingMode', selectedDeviceId)
            /\ calls' = Advance(call, [call EXCEPT !.pc = "stream"])
            /\ event' = Emit("start", "enumerate", call,
                   Devices(mediaDevices),
                   <<getUserMedia(getMediaConstraints(
                         selectedDeviceId', facingMode'))>>,
                   NoEvent)
    /\ UNCHANGED <<elements, streamList, display, tracks>>

\* A variant of start whose streaming stage asks for what the selection was
\* before the device list arrived.
infoThenDevicesStaleRequest(call, mediaDevices) ==
    /\ call.pc = "enumerate"
    /\ webcamList' = pushVideoInputs(mediaDevices, <<>>)
    /\ facingMode' = facingModeAfterInputs(webcamList', facingMode)
    /\ IF call.op = "info"
       THEN /\ UNCHANGED selectedDeviceId
            /\ calls' = Settle(call)
            /\ event' = Emit("info", "enumerate", call, Devices(mediaDevices),
                             <<>>, resolve(webcamList'))
       ELSE /\ selectedDeviceId' =
                   selectCameraLoop(webcamList', facingMode', selectedDeviceId)
            /\ IF call.startStream
               THEN /\ calls' = Advance(call, [call EXCEPT !.pc = "stream"])
                    /\ event' = Emit("start", "enumerate", call,
                           Devices(mediaDevices),
                           <<getUserMedia(getMediaConstraints(
                                 selectedDeviceId, facingMode))>>,
                           NoEvent)
               ELSE /\ calls' = Settle(call)
                    /\ event' = Emit("start", "enumerate", call,
                           Devices(mediaDevices), <<>>,
                           resolve(selectedDeviceId'))
    /\ UNCHANGED <<elements, streamList, display, tracks>>

\* info, lines 196-198: enumerateDevices is fulfilled; getVideoInputs runs
\* and info resolves.  Inside start, lines 172-180 follow: selectCamera,
\* then stream() issues its getUserMedia, or start resolves.
infoThenDevices(call, mediaDevices) ==
    /\ call.pc = "enumerate"
    /\ webcamList' = pushVideoInputs(mediaDevices, <<>>)
    /\ facingMode' = facingModeAfterInputs(webcamList', facingMode)
    /\ IF call.op = "info"
       THEN /\ UNCHANGED selectedDeviceId
            /\ calls' = Settle(call)
            /\ event' = Emit("info", "enumerate", call, Devices(mediaDevices),
                             <<>>, resolve(webcamList'))
       ELSE /\ selectedDeviceId' =
                   selectCameraLoop(webcamList', facingMode', selectedDeviceId)
            /\ IF call.startStream
               THEN /\ calls' = Advance(call, [call EXCEPT !.pc = "stream"])
                    /\ event' = Emit("start", "enumerate", call,
                           Devices(mediaDevices),
                           <<getUserMedia(getMediaConstraints(
                                 selectedDeviceId', facingMode'))>>,
                           NoEvent)
               ELSE /\ calls' = Settle(call)
                    /\ event' = Emit("start", "enumerate", call,
                           Devices(mediaDevices), <<>>,
                           resolve(selectedDeviceId'))
    /\ UNCHANGED <<elements, streamList, display, tracks>>

\* A variant of stream that shows the stream without recording it.
streamThenStreamUnlisted(call) ==
    /\ call.pc = "stream"
    /\ Len(tracks) < MaxHandles
    /\ LET h == Len(tracks) + 1 IN
        /\ tracks' = Append(tracks, newTracks(h))
        /\ srcObject' = h
        /\ event' = Emit(call.op, "stream", call, Stream(h), <<>>,
                         resolve(facingMode))
    /\ transform' = streamTransform(facingMode, transform)
    /\ playing' = TRUE
    /\ calls' = Settle(call)
    /\ UNCHANGED <<elements, session>>

\* stream, lines 212-221: getUserMedia is fulfilled with a stream; inside
\* start, line 176 then resolves start.
streamThenStream(call) ==
    /\ call.pc = "stream"
    /\ Len(tracks) < MaxHandles
    /\ LET h == Len(tracks) + 1 IN
        /\ tracks' = Append(tracks, newTracks(h))
        /\ streamList' = Append(streamList, h)
        /\ srcObject' = h
        /\ event' = Emit(call.op, "stream", call, Stream(h), <<>>,
                         resolve(facingMode))
    /\ transform' = streamTransform(facingMode, transform)
    /\ playing' = TRUE
    /\ calls' = Settle(call)
    /\ UNCHANGED <<elements, facingMode, webcamList, selectedDeviceId>>

\* A variant in which start has no catch on the stream() it calls: stream
\* rejects, and start stays pending for ever.
getUserMediaCatchStartHangs(call, error) ==
    /\ call.pc \in {"acquire", "stream"}
    /\ IF call.op = "start" /\ call.pc = "stream"
       THEN /\ calls' = Advance(call, [call EXCEPT !.pc = "pending"])
            /\ event' = Emit(call.op, call.pc, call, Failure(error), <<>>,
                             NoEvent)
       ELSE /\ calls' = Settle(call)
            /\ event' = Emit(call.op, call.pc, call, Failure(error), <<>>,
                             reject(error))
    /\ UNCHANGED <<elements, session, display, tracks>>

\* lines 184, 224 and 177: getUserMedia is rejected with error.
getUserMediaCatch(call, error) ==
    /\ call.pc \in {"acquire", "stream"}
    /\ calls' = Settle(call)
    /\ event' = Emit(call.op, call.pc, call, Failure(error), <<>>,
                     reject(error))
    /\ UNCHANGED <<elements, session, display, tracks>>

\* lines 200 and 182: enumerateDevices is rejected with error.
enumerateDevicesCatch(call, error) ==
    /\ call.pc = "enumerate"
    /\ calls' = Settle(call)
    /\ event' = Emit(call.op, "enumerate", call, Failure(error), <<>>,
                     reject(error))
    /\ UNCHANGED <<elements, session, display, tracks>>

----------------------------------------------------------------------------

Next ==
    \/ \E fm \in FacingModes : setFacingMode(fm)
    \/ \E mediaDevices \in RawLists : getVideoInputs(mediaDevices)
    \/ selectCamera
    \/ flip
    \/ stop
    \/ \E context \in BOOLEAN : snap(context)
    \/ \E startStream \in BOOLEAN : start(startStream)
    \/ info
    \/ stream
    \/ \E call \in InFlight : startThenStream(call)
    \/ \E call \in InFlight, mediaDevices \in RawLists :
           infoThenDevices(call, mediaDevices)
    \/ \E call \in InFlight : streamThenStream(call)
    \/ \E call \in InFlight, error \in Errors : getUserMediaCatch(call, error)
    \/ \E call \in InFlight, error \in Errors :
           enumerateDevicesCatch(call, error)

Spec == Init /\ [][Next]_vars

SpecAny == InitAny /\ [][Next]_vars

\* The platform settles the request a call in flight waits for.
Deliver(call) ==
    \/ startThenStream(call)
    \/ \E mediaDevices \in RawLists : infoThenDevices(call, mediaDevices)
    \/ streamThenStream(call)
    \/ \E error \in Errors : getUserMediaCatch(call, error)
    \/ \E error \in Errors : enumerateDevicesCatch(call, error)

\* Every platform request eventually succeeds or fails: for each method and
\* each request it can wait for, a pending request of that kind is settled.
PlatformSettles ==
    \A op \in {"start", "info", "stream"} :
        \A pc \in {"acquire", "enumerate", "stream"} :
            WF_vars(\E call \in InFlight :
                        call.op = op /\ call.pc = pc /\ Deliver(call))

FairSpec == Init /\ [][Next]_vars /\ PlatformSettles

TypeOK ==
    /\ facingMode \in FacingModes
    /\ Len(tracks) <= MaxHandles
    /\ Range(streamList) \subseteq 1..Len(tracks)

----------------------------------------------------------------------------
(* Vocabulary of the properties, stated without the operators above.       *)

\* ch lower-cases to the lower-case character low.
LowersTo(ch, low) ==
    \/ ch = low
    \/ \E i \in 1..Len(UpperChars) : UpperChars[i] = ch /\ LowerChars[i] = low

\* The lower-cased label contains word (word is in lower case).
ContainsIgnoringCase(label, word) ==
    \E k \in 0..(Len(label) - Len(word)) :
        \A i \in 1..Len(word) : LowersTo(label[k + i], word[i])

WantedWord(fm) == IF fm = "user" THEN FRONT ELSE BACK

\* Positions of list whose label matches the facing mode fm.
Matching(list, fm) ==
    {i \in 1..Len(list) : ContainsIgnoringCase(list[i].label, WantedWord(fm))}

Least(S) == CHOOSE i \in S : \A j \in S : i <= j

\* The device id of the first camera of list matching fm, prior if none.
FirstMatchOr(list, fm, prior) ==
    IF Matching(list, fm) = {} THEN prior
    ELSE list[Least(Matching(list, fm))].deviceId

\* A media request that carries exactly one key: the facing mode when no
\* device is selected, the exact device id otherwise; never audio.
KeyedFor(constraints, deviceId, fm) ==
    /\ DOMAIN constraints = {"video", "audio"}
    /\ constraints.audio = FALSE
    /\ IF deviceId = ""
       THEN /\ DOMAIN constraints.video = {"facingMode"}
            /\ constraints.video.facingMode = fm
       ELSE /\ DOMAIN constraints.video = {"deviceId"}
            /\ DOMAIN constraints.video.deviceId = {"exact"}
            /\ constraints.video.deviceId.exact = deviceId

IsAsync(e) == "stage" \in DOMAIN e

\* The getUserMedia requests the latest step issued.
IssuedMedia ==
    IF IsAsync(event)
    THEN {event.requests[i].constraints : i \in
            {j \in 1..Len(event.requests) :
                event.requests[j].api = "getUserMedia"}}
    ELSE {}

----------------------------------------------------------------------------
(* C7: selectCamera sets the selected device identifier to the device id   *)
(* of the first camera, in enumeration order, whose lower-cased label      *)
(* contains "front" (facing mode user) or "back" (facing mode              *)
(* environment); with no match it keeps the prior identifier; it changes   *)
(* nothing else.                                                           *)
C7_SelectCameraFirstMatch ==
    [][event' = Ran("selectCamera") =>
          /\ selectedDeviceId' =
                 FirstMatchOr(webcamList, facingMode, selectedDeviceId)
          /\ UNCHANGED <<facingMode, webcamList, streamList, display, tracks,
                         calls>>]_vars

\* selectCamera has picked the first of two matching cameras, whose label
\* is in upper case.
C7_Witness ==
    /\ event = Ran("selectCamera")
    /\ facingMode = "environment"
    /\ webcamList = <<DevBoth, DevBack>>
    /\ selectedDeviceId = DevBoth.deviceId

(* C8: in every reachable state getMediaConstraints returns audio false    *)
(* and a video part with exactly one key: the current facing mode when the *)
(* selected device identifier is empty, the exact selected device          *)
(* identifier otherwise, whatever the facing mode; so does every media     *)
(* request a step issues.                                                  *)
C8_ConstraintsOneKey ==
    /\ KeyedFor(getMediaConstraints(selectedDeviceId, facingMode),
                selectedDeviceId, facingMode)
    /\ \A constraints \in IssuedMedia :
           KeyedFor(constraints, selectedDeviceId, facingMode)

\* stream has issued a request keyed by the rear camera's id while the
\* facing mode is user.
C8_Witness ==
    /\ IsAsync(event) /\ event.op = "stream" /\ event.stage = "call"
    /\ selectedDeviceId = DevBack.deviceId
    /\ facingMode = "user"
    /\ IssuedMedia # {}

\* list holds exactly the videoinput entries of raw, in raw's order.
IsVideoInputsOf(list, raw) ==
    LET V == {i \in 1..Len(raw) : raw[i].kind = "videoinput"} IN
    /\ Len(list) = Cardinality(V)
    /\ \A i \in V : list[Cardinality({j \in V : j <= i})] = raw[i]

\* The effect of filtering raw on the stored list and the facing mode.
FilteredFrom(raw) ==
    /\ IsVideoInputsOf(webcamList', raw)
    /\ facingMode' = IF Len(webcamList') = 1 THEN "user" ELSE facingMode

(* C9: for any raw device list, getVideoInputs, and info once the          *)
(* enumeration result arrives, replace the stored camera list by exactly   *)
(* the videoinput entries in their original order (info resolves with      *)
(* that list); afterwards the facing mode is user when the filtered list   *)
(* has exactly one entry and is unchanged otherwise.                       *)
C9_VideoInputsFiltered ==
    [][/\ \A raw \in RawLists : getVideoInputs(raw) => FilteredFrom(raw)
       /\ (IsAsync(event') /\ event'.delivered.kind = "devices") =>
              /\ FilteredFrom(event'.delivered.v)
              /\ event'.op = "info" =>
                     event'.settled = [kind |-> "resolved", v |-> webcamList']
      ]_vars

\* info has resolved with the one camera of a two-device list.
C9_Witness ==
    /\ IsAsync(event) /\ event.op = "info"
    /\ event.delivered = Devices(<<DevMic, DevBack>>)
    /\ event.settled = [kind |-> "resolved", v |-> <<DevBack>>]
    /\ webcamList = <<DevBack>>
    /\ facingMode = "user"

(* C10: flip toggles the facing mode, clears the display target's mirror   *)
(* transform and re-runs camera selection against the stored camera list;  *)
(* it issues no platform request and leaves the camera list, the stream    *)
(* list, every track, the display target's source and the calls in flight  *)
(* unchanged.                                                              *)
C10_FlipFrame ==
    [][event' = Ran("flip") =>
          /\ facingMode' \in FacingModes \ {facingMode}
          /\ transform' = ""
          /\ selectedDeviceId' =
                 FirstMatchOr(webcamList, facingMode', selectedDeviceId)
          /\ UNCHANGED <<webcamList, streamList, tracks, srcObject, playing,
                         calls>>]_vars

\* flip has switched to the rear camera while a stream is bound and live.
C10_Witness ==
    /\ event = Ran("flip")
    /\ facingMode = "environment"
    /\ selectedDeviceId = DevBack.deviceId
    /\ transform = ""
    /\ srcObject # None
    /\ \A t \in DOMAIN tracks[srcObject] : tracks[srcObject][t] = "live"

\* The latest step belongs to a call of start.
StartStep(e) == IsAsync(e) /\ e.op = "start"

\* The requests of kind api that event e issued.
Issued(e, api) ==
    {i \in 1..Len(e.requests) : e.requests[i].api = api}

\* The step put a call r in flight (or moved a call to r).
Entered(r) == CopiesIn(r, calls') > CopiesIn(r, calls)

Halted(trk, h) == \A t \in DOMAIN trk[h] : trk[h][t] = "ended"
Live(trk, h) == \A t \in DOMAIN trk[h] : trk[h][t] = "live"

(* C1: within start the stages run in the order stop, acquire, enumerate,  *)
(* select, stream-or-resolve.  The call itself stops the listed streams    *)
(* and issues only the first media request; the enumeration request is     *)
(* issued only by the step that receives the first media request's stream; *)
(* selectCamera runs only in the step that receives the device list, on    *)
(* the list already filtered from it; the streaming-stage media request is *)
(* issued only in that step and is built from the selection just made;     *)
(* start resolves only after its last stage.                               *)
C1_StartStagesInOrder ==
    [][/\ StartStep(event') =>
            /\ event'.stage = "call" =>
                   /\ \A h \in Range(streamList) : Halted(tracks', h)
                   /\ Issued(event', "enumerateDevices") = {}
                   /\ Len(event'.requests) = 1
            /\ Issued(event', "enumerateDevices") # {} =>
                   /\ event'.stage = "acquire"
                   /\ event'.delivered.kind = "stream"
                   /\ streamList' = Append(streamList, event'.delivered.v)
            /\ selectedDeviceId' # selectedDeviceId =>
                   /\ event'.stage = "enumerate"
                   /\ event'.delivered.kind = "devices"
            /\ event'.delivered.kind = "devices" =>
                   /\ event'.stage = "enumerate"
                   /\ IsVideoInputsOf(webcamList', event'.delivered.v)
                   /\ selectedDeviceId' =
                          FirstMatchOr(webcamList', facingMode',
                                       selectedDeviceId)
            /\ (event'.stage # "call"
                   /\ Issued(event', "getUserMedia") # {}) =>
                   /\ event'.stage = "enumerate"
                   /\ event'.delivered.kind = "devices"
                   /\ event'.startStream
                   /\ \A i \in Issued(event', "getUserMedia") :
                          KeyedFor(event'.requests[i].constraints,
                                   selectedDeviceId', facingMode')
            /\ event'.settled.kind = "resolved" =>
                   event'.stage = IF event'.startStream THEN "stream"
                                  ELSE "enumerate"
       /\ \A r \in BagToSet(calls') : (r.op = "start" /\ Entered(r)) =>
            /\ StartStep(event')
            /\ r.pc = "acquire" => (event'.stage = "call" /\ r.granted = 0)
            /\ r.pc = "enumerate" =>
                   /\ event'.stage = "acquire"
                   /\ [r EXCEPT !.pc = "acquire", !.granted = 0]
                          \in BagToSet(calls)
                   /\ r.granted = event'.delivered.v
            /\ r.pc = "stream" =>
                   /\ event'.stage = "enumerate"
                   /\ [r EXCEPT !.pc = "enumerate"] \in BagToSet(calls)
      ]_vars

\* start(true) has gone through every stage and resolved.
C1_Witness ==
    /\ StartStep(event) /\ event.startStream
    /\ event.stage = "stream"
    /\ event.settled.kind = "resolved"
    /\ event.granted # 0
    /\ selectedDeviceId # ""

(* C2: every step of a start(false) leaves the display target's source,    *)
(* mirror transform and playback untouched, and start(false) resolves with *)
(* the selected device identifier as it stands after selection (possibly   *)
(* ""); start(true) resolves with the facing mode current at that moment,  *)
(* and then the display target's source is the stream just acquired, the   *)
(* last of the stream list, and playback has been started.                 *)
C2_StartResult ==
    [][StartStep(event') =>
          /\ ~event'.startStream =>
                 /\ UNCHANGED display
                 /\ event'.settled.kind = "resolved" =>
                        event'.settled.v = selectedDeviceId'
          /\ (event'.startStream /\ event'.settled.kind = "resolved") =>
                 /\ event'.settled.v = facingMode'
                 /\ event'.delivered.kind = "stream"
                 /\ srcObject' = event'.delivered.v
                 /\ srcObject' \notin Range(streamList)
                 /\ streamList' = Append(streamList, srcObject')
                 /\ playing'
      ]_vars

\* start(false) has resolved with the empty identifier: no label matched,
\* and the display target is as constructed.
C2_Witness ==
    /\ StartStep(event) /\ ~event.startStream
    /\ event.settled = [kind |-> "resolved", v |-> ""]
    /\ webcamList # <<>>
    /\ srcObject = None /\ transform = "" /\ ~playing

(* C3: when the platform fails a request of start, info or stream, the     *)
(* call rejects with exactly that failure value in the same step, issues   *)
(* no further request and leaves the calls in flight (so no later stage    *)
(* runs and it never resolves); the session, the display target and the    *)
(* tracks are unchanged; a call rejects only on a platform failure.        *)
C3_FailurePropagates ==
    [][IsAsync(event') =>
          /\ event'.delivered.kind = "error" =>
                 /\ event'.settled =
                        [kind |-> "rejected", v |-> event'.delivered.v]
                 /\ event'.requests = <<>>
                 /\ \E r \in BagToSet(calls) :
                        /\ r.op = event'.op /\ r.pc = event'.stage
                        /\ calls' = calls (-) SetToBag({r})
                 /\ UNCHANGED <<session, display, tracks>>
          /\ event'.settled.kind = "rejected" =>
                 event'.delivered.kind = "error"
      ]_vars

\* start has rejected with the failure of its streaming-stage request.
C3_Witness ==
    /\ StartStep(event) /\ event.stage = "stream"
    /\ event.delivered = Failure("NotFoundError")
    /\ event.settled = [kind |-> "rejected", v |-> "NotFoundError"]
    /\ calls = EmptyBag

\* A handle the platform has granted.
Handles == 1..Len(tracks)

(* C4: stop leaves every track of every handle of the stream list halted   *)
(* and changes nothing but track states; a stop that finds every listed    *)
(* track already halted changes no track and no session state.             *)
C4_StopHaltsAll ==
    [][event' = Ran("stop") =>
          /\ \A h \in Range(streamList) : Halted(tracks', h)
          /\ UNCHANGED <<session, display, calls>>
          /\ (\A h \in Range(streamList) : Halted(tracks, h)) =>
                 tracks' = tracks
      ]_vars

\* stop has run after two streams were acquired, one of them with two
\* tracks; nothing is in flight and every track is halted.
C4_Witness ==
    /\ event = Ran("stop")
    /\ calls = EmptyBag
    /\ streamList = <<1, 2>>
    /\ srcObject = 2
    /\ \E h \in Handles : Len(tracks[h]) > 1
    /\ \A h \in Handles : Halted(tracks, h)

(* C5: stop does not cancel a call in flight: it leaves the calls in       *)
(* flight as they are and halts only handles already in the stream list;   *)
(* a stream the platform delivers afterwards is a new handle, appended to  *)
(* the stream list with all its tracks live (and bound to the display      *)
(* target when it is the streaming stage's), no other track changing.      *)
C5_StopDoesNotCancel ==
    [][/\ event' = Ran("stop") =>
            /\ calls' = calls
            /\ \A h \in Handles \ Range(streamList) : tracks'[h] = tracks[h]
       /\ (IsAsync(event') /\ event'.delivered.kind = "stream") =>
            LET h == event'.delivered.v IN
            /\ h \notin Handles
            /\ streamList' = Append(streamList, h)
            /\ Live(tracks', h)
            /\ \A g \in Handles : tracks'[g] = tracks[g]
            /\ event'.stage = "stream" => srcObject' = h
      ]_vars

\* A start(true) has resolved although stop ran after its acquire stage:
\* the stream of that stage is halted, the one delivered after the stop is
\* live and bound to the display target.
C5_Witness ==
    /\ StartStep(event) /\ event.stage = "stream"
    /\ event.settled.kind = "resolved"
    /\ event.granted \in Handles
    /\ Halted(tracks, event.granted)
    /\ event.delivered.v = Len(tracks)
    /\ Live(tracks, event.delivered.v)
    /\ srcObject = event.delivered.v

(* C6 as claimed: when start rejects after its first media request         *)
(* succeeded, the handle of that request is in the stream list with its    *)
(* tracks live.                                                            *)
C6_Original ==
    (StartStep(event) /\ event.settled.kind = "rejected"
        /\ event.granted # 0) =>
        /\ event.granted \in Range(streamList)
        /\ Live(tracks, event.granted)

(* C6, amended: when start rejects after its first media request           *)
(* succeeded, the handle of that request is still in the stream list and   *)
(* the rejection changes no track; the handle is granted live, and while   *)
(* its start is in flight only stop or the call of another start changes   *)
(* its tracks; no step removes a handle from the stream list, and a stop   *)
(* halts every track of every listed handle.                               *)
C6_FailedStartKeepsHandle ==
    [][/\ (StartStep(event') /\ event'.settled.kind = "rejected"
              /\ event'.granted # 0) =>
            /\ event'.granted \in Range(streamList')
            /\ tracks' = tracks
       /\ (StartStep(event') /\ event'.stage = "acquire"
              /\ event'.delivered.kind = "stream") =>
            /\ event'.granted = event'.delivered.v
            /\ event'.granted \in Range(streamList')
            /\ Live(tracks', event'.granted)
       /\ \A r \in BagToSet(calls) :
            (r.granted # 0 /\ tracks'[r.granted] # tracks[r.granted]) =>
                \/ event' = Ran("stop")
                \/ (StartStep(event') /\ event'.stage = "call")
       /\ Range(streamList) \subseteq Range(streamList')
       /\ event' = Ran("stop") =>
            \A h \in Range(streamList) : Halted(tracks', h)
      ]_vars

\* start has rejected at the enumeration stage; the stream of its acquire
\* stage is listed and live.
C6_Witness ==
    /\ StartStep(event) /\ event.stage = "enumerate"
    /\ event.settled.kind = "rejected"
    /\ event.granted \in Range(streamList)
    /\ Live(tracks, event.granted)

\* A stream() has just completed successfully (on its own or inside start).
StreamCompleted(e) ==
    IsAsync(e) /\ e.stage = "stream" /\ e.settled.kind = "resolved"

(* C11: whenever a stream call completes successfully, the display target  *)
(* carries the horizontal mirror transform if and only if the facing mode  *)
(* is front-facing at that moment.                                         *)
C11_MirrorIffFront ==
    StreamCompleted(event) =>
        (transform = "scale(-1,1)" <=> facingMode = "user")

\* The latest step ran selectCamera: directly, via flip, or in the step of
\* a start that receives the device list.
SelectionStep(e) ==
    \/ e = Ran("selectCamera")
    \/ e = Ran("flip")
    \/ (StartStep(e) /\ e.stage = "enumerate" /\ e.delivered.kind = "devices")

(* C12: the selected device identifier is empty at construction and        *)
(* changes only in a step that runs selectCamera (directly, via flip or    *)
(* via start), and then to the device id of a camera of the stored list    *)
(* whose label matches the facing mode in force at that selection; once    *)
(* non-empty it is never empty again; getVideoInputs and info (also when   *)
(* one camera forces front-facing), setFacingMode, stop, stream and snap   *)
(* leave it unchanged.                                                     *)
C12_SelectedIdOnlyBySelection ==
    /\ selectedDeviceId = ""
    /\ [][/\ selectedDeviceId' # selectedDeviceId =>
               /\ SelectionStep(event')
               /\ \E i \in Matching(webcamList', facingMode') :
                      webcamList'[i].deviceId = selectedDeviceId'
          /\ selectedDeviceId # "" => selectedDeviceId' # ""
          /\ event'.op \in {"getVideoInputs", "info", "setFacingMode", "stop",
                             "stream", "snap"} =>
                 UNCHANGED selectedDeviceId
          ]_vars

\* A re-enumeration has found exactly one camera, front-labelled too, and
\* forced front-facing; the rear camera selected before is still selected.
C12_Witness ==
    /\ event = Ran("getVideoInputs")
    /\ webcamList = <<DevBoth>>
    /\ facingMode = "user"
    /\ selectedDeviceId = DevBack.deviceId

(* C13: snap called when no drawing surface is bound, or when the bound    *)
(* surface yields no 2D drawing context, throws an error with message      *)
(* "Canvas element is missing." before any side effect: it plays no sound, *)
(* makes no call on the drawing surface or its context, returns nothing    *)
(* and changes no session state, display target, track or call in flight;  *)
(* snap throws in no other case.                                           *)
C13_SnapThrowsBeforeEffects ==
    [][/\ \A context \in BOOLEAN :
            (snap(context) /\ (~canvasElement \/ ~context)) =>
                event'.thrown = "Canvas element is missing."
       /\ (event'.op = "snap" /\ ~canvasElement) =>
            event'.thrown = "Canvas element is missing."
       /\ (event'.op = "snap" /\ event'.thrown # "") =>
            /\ event'.effects = <<>>
            /\ event'.returned = ""
            /\ UNCHANGED <<session, display, tracks, calls, elements>>
       /\ \A context \in BOOLEAN :
            (snap(context) /\ canvasElement /\ context) =>
                event'.thrown = ""
      ]_vars

\* snap has thrown in a session without a drawing surface, with a sound
\* element bound and a stream playing on the display target.
C13_Witness ==
    /\ event.op = "snap"
    /\ event.thrown = "Canvas element is missing."
    /\ ~canvasElement /\ snapSoundElement
    /\ playing /\ srcObject # None

(* C14: after every flip the selected device identifier is the id of a     *)
(* camera of the stored list whose label matches the new facing mode.      *)
C14_FlipSelectsMatching ==
    event = Ran("flip") =>
        \E i \in Matching(webcamList, facingMode) :
            webcamList[i].deviceId = selectedDeviceId

\* The handles a start that has just resolved appended to the stream list.
AppendedBy(e) ==
    IF e.startStream THEN {e.granted, e.delivered.v} ELSE {e.granted}

(* C15 as claimed: when a start resolves, its newly appended handles (two  *)
(* for start(true), one for start(false)) are all live, every other listed *)
(* handle is halted, and for start(true) the display target is bound to    *)
(* the second one only.                                                    *)
C15_Original ==
    (StartStep(event) /\ event.settled.kind = "resolved") =>
        /\ \A h \in Range(streamList) :
               IF h \in AppendedBy(event) THEN Live(tracks, h)
               ELSE Halted(tracks, h)
        /\ event.startStream =>
               (srcObject = event.delivered.v /\ srcObject # event.granted)

(* C15, amended: the call of start halts every listed handle and appends   *)
(* none, and a halted track stays halted; the acquire stage appends the    *)
(* handle it is granted, live and not bound to the display target; the     *)
(* enumeration stage appends none, and start(false) resolves there; the    *)
(* streaming stage of start(true) appends a second, different handle,      *)
(* live and bound to the display target, and start(true) resolves there;   *)
(* a failed request appends none; while the start is in flight only stop   *)
(* or the call of another start changes the tracks of its first handle.    *)
C15_StartAppendsItsHandles ==
    [][/\ StartStep(event') =>
            /\ event'.stage = "call" =>
                   /\ streamList' = streamList
                   /\ \A h \in Range(streamList) : Halted(tracks', h)
            /\ (event'.stage = "acquire"
                   /\ event'.delivered.kind = "stream") =>
                   /\ event'.granted = event'.delivered.v
                   /\ event'.granted \notin Range(streamList)
                   /\ streamList' = Append(streamList, event'.granted)
                   /\ Live(tracks', event'.granted)
                   /\ srcObject' = srcObject
            /\ event'.stage = "enumerate" => streamList' = streamList
            /\ event'.delivered.kind = "error" => streamList' = streamList
            /\ event'.settled.kind = "resolved" =>
                   /\ event'.stage = IF event'.startStream THEN "stream"
                                     ELSE "enumerate"
                   /\ event'.granted \in Range(streamList)
                   /\ event'.startStream =>
                          LET h == event'.delivered.v IN
                          /\ h \notin Range(streamList)
                          /\ streamList' = Append(streamList, h)
                          /\ Live(tracks', h)
                          /\ srcObject' = h
                          /\ tracks'[event'.granted] = tracks[event'.granted]
       /\ \A h \in Handles : \A t \in DOMAIN tracks[h] :
            tracks[h][t] = "ended" => tracks'[h][t] = "ended"
       /\ \A r \in BagToSet(calls) :
            (r.op = "start" /\ r.granted # 0
                /\ ~Live(tracks', r.granted)) =>
                \/ ~Live(tracks, r.granted)
                \/ event' = Ran("stop")
                \/ (StartStep(event') /\ event'.stage = "call")
      ]_vars

\* A start(true) called with one stream in the list has resolved: that
\* stream is halted, the two it appended are live, the last one is bound.
C15_Witness ==
    /\ StartStep(event) /\ event.startStream
    /\ event.settled.kind = "resolved"
    /\ streamList = <<1, 2, 3>>
    /\ event.granted = 2 /\ event.delivered.v = 3
    /\ Halted(tracks, 1) /\ Live(tracks, 2) /\ Live(tracks, 3)
    /\ srcObject = 3

\* The platform has just granted a stream to a media request.
StreamGranted(e) == IsAsync(e) /\ e.delivered.kind = "stream"

(* C16: the stream list only ever grows by appending at the end: a step    *)
(* changes it only when the platform grants a stream to start's acquire    *)
(* stage or to a stream, and then appends exactly that one new handle;     *)
(* stop, flip, setFacingMode, selectCamera, getVideoInputs, info, snap,    *)
(* the call of an asynchronous method and any failed platform request      *)
(* leave its contents and order unchanged; its length never decreases.     *)
C16_StreamListAppendOnly ==
    [][/\ IF StreamGranted(event')
          THEN /\ event'.stage \in {"acquire", "stream"}
               /\ event'.op \in {"start", "stream"}
               /\ event'.delivered.v \notin Range(streamList)
               /\ streamList' = streamList \o <<event'.delivered.v>>
               /\ Len(streamList') = Len(streamList) + 1
          ELSE streamList' = streamList
       /\ event'.op \in {"stop", "flip", "setFacingMode", "selectCamera",
                          "getVideoInputs", "info", "snap"} =>
              streamList' = streamList
       /\ (IsAsync(event') /\ event'.delivered.kind = "error") =>
              streamList' = streamList
       /\ Len(streamList') >= Len(streamList)
       /\ \A i \in 1..Len(streamList) : streamList'[i] = streamList[i]
      ]_vars

\* stop has halted three streams, and all three are still listed in the
\* order they were acquired.
C16_Witness ==
    /\ event = Ran("stop")
    /\ streamList = <<1, 2, 3>>
    /\ \A h \in Handles : Halted(tracks, h)

\* A media request that asks for exactly the device deviceId.
ExactDevice(deviceId) ==
    [api |-> "getUserMedia",
     constraints |-> [video |-> [deviceId |-> [exact |-> deviceId]],
                      audio |-> FALSE]]

(* C17: in start(true) the streaming-stage media request is issued in the  *)
(* step that receives the device list and is built from the state after    *)
(* filtering and selection: when the freshly filtered list has a camera    *)
(* whose label matches the facing mode in force after filtering, the       *)
(* request asks for exactly the first such camera's device id, whatever    *)
(* the selection was when start was called.                                *)
C17_StreamRequestAfterSelection ==
    [][(StartStep(event') /\ event'.startStream
           /\ event'.delivered.kind = "devices") =>
          LET fm == IF Len(webcamList') = 1 THEN "user" ELSE facingMode
              M == Matching(webcamList', fm)
          IN  /\ IsVideoInputsOf(webcamList', event'.delivered.v)
              /\ Len(event'.requests) = 1
              /\ M # {} =>
                     event'.requests =
                         <<ExactDevice(webcamList'[Least(M)].deviceId)>>
              /\ M = {} =>
                     KeyedFor(event'.requests[1].constraints,
                              selectedDeviceId, fm)
      ]_vars

\* A start(true) has received a list of two cameras of which the second
\* is the first to match the facing mode, and has asked for that one.
C17_Witness ==
    /\ StartStep(event) /\ event.startStream
    /\ event.stage = "enumerate"
    /\ webcamList = <<DevBack, DevBoth>>
    /\ facingMode = "user"
    /\ event.requests = <<ExactDevice(DevBoth.deviceId)>>

AsyncMethods == {"start", "info", "stream"}

\* A call of method op is pending.
Pending(op) == \E r \in InFlight : r.op = op

\* The latest step settled a call of method op.
SettledNow(e, op) ==
    IsAsync(e) /\ e.op = op /\ e.settled.kind \in {"resolved", "rejected"}

C19_SetFacingModeFrame ==
    [][/\ event' = Ran("setFacingMode") =>
            /\ UNCHANGED <<selectedDeviceId, webcamList, streamList, tracks,
                           srcObject, transform, playing, calls, elements>>
            /\ ~IsAsync(event')
       /\ \A fm \in FacingModes : setFacingMode(fm) => getFacingMode' = fm
      ]_vars

\* setFacingMode has switched to rear-facing while a front-labelled camera
\* is selected and a live stream is shown mirrored: all of that is kept.
C19_Witness ==
    /\ event = Ran("setFacingMode")
    /\ getFacingMode = "environment"
    /\ selectedDeviceId = DevBoth.deviceId
    /\ webcamList = <<DevBoth, DevBack>>
    /\ transform = "scale(-1,1)"
    /\ srcObject # None /\ Live(tracks, srcObject)

====
